---- MODULE Spec2Model ----
(***************************************************************************)
(* Home IoT Guardian: the sequence-anomaly engine.                         *)
(*                                                                         *)
(*   models/preprocess.py          clean_data, create_sequences,           *)
(*                                 preprocess_pipeline                     *)
(*   models/train_model.py         detect_anomalies, evaluate_model,       *)
(*                                 train_lstm_autoencoder                  *)
(*   models/optimize_threshold.py  find_optimal_threshold                  *)
(*   app.py                        load_ml_model, preprocess_for_detection,*)
(*                                 send_email_alert, detect_anomalies,     *)
(*                                 upload_file, get_history,               *)
(*                                 get_scan_details                        *)
(*                                                                         *)
(* Reconstruction errors and thresholds are exact rationals here; the      *)
(* floats of the code are read as the reals they stand for.  A Python      *)
(* value that may be None is a sequence of length 0 or 1.                  *)
(***************************************************************************)
EXTENDS Integers, Sequences, FiniteSets, TLC

VARIABLES
    win,        \* the windowers applied to one table (create_sequences, preprocess_for_detection)
    pre,        \* preprocess_pipeline applied to one labelled table
    ev,         \* classification and evaluate_model applied to one error vector
    cal,        \* one call of find_optimal_threshold: its inputs, position and locals
    modelFile,  \* models/lstm_model.keras: None, or the model it holds
    thrOptFile, \* models/threshold_optimized.txt: None, or the text it holds
    thrFile,    \* models/threshold.txt: None, or the text it holds
    MODEL,      \* app.py global
    THRESHOLD,  \* app.py global
    upload,     \* the CSV file uploaded, and the errors the model gives its windows
    call,       \* the last call of app.detect_anomalies: its result and its alerts
    mailed,     \* the last call of send_email_alert made from outside detect_anomalies
    loads,      \* the last call of load_ml_model: what it printed and the file it read
    db,         \* the table of ScanResult rows, in insertion order
    train,      \* one run of train_lstm_autoencoder: its position and locals
    threads     \* request threads of the server, each inside detect_anomalies

files == <<modelFile, thrOptFile, thrFile>>
app == <<modelFile, thrOptFile, thrFile, MODEL, THRESHOLD, upload, call, mailed, loads>>
vars == <<win, pre, ev, cal, modelFile, thrOptFile, thrFile, MODEL, THRESHOLD, upload, call,
          mailed, loads, db, train, threads>>

\* what an action on one component leaves alone
NotWin == <<pre, ev, cal, app, db, train, threads>>
NotPre == <<win, ev, cal, app, db, train, threads>>
NotEv == <<win, pre, cal, app, db, train, threads>>
NotCal == <<win, pre, ev, app, db, train, threads>>
NotApp == <<win, pre, ev, cal, db, train, threads>>
NotUpload == <<win, pre, ev, cal, train, threads>>

None == <<>>
Some(v) == <<v>>
IsNone(o) == o = <<>>
Val(o) == o[1]

Range(s) == {s[i] : i \in DOMAIN s}

\* the element of a one-element set
Only(S) == CHOOSE x \in S : TRUE

----------------------------------------------------------------------------
(* Bounds of the model *)

MaxExtra == 2       \* rows beyond the window length (and beyond the details cap)
MaxL == 3           \* window lengths tried on create_sequences
MaxPreRows == 4     \* rows of a table given to preprocess_pipeline
MaxPreL == 2        \* window lengths given to preprocess_pipeline
MaxEvLen == 3       \* windows of an evaluated split
MaxEvErr == 2       \* largest error (and threshold) of an evaluated split
MaxTrain == 3       \* train_errors given to find_optimal_threshold
MaxTrainErr == 2    \* largest train error
MaxTestErr == 3     \* largest held-out error
MaxGroups == 3      \* groups of equal held-out windows
BigCount == 6       \* windows in a large group of malicious held-out windows
MaxThr == 2         \* the number a threshold file holds is 0 or MaxThr
MaxErr == 5         \* largest error of an uploaded window
PatLen == 2         \* the errors of an upload's windows repeat with this period
MaxMailArg == 1     \* largest count given to send_email_alert called on its own
MaxScans == 51      \* uploads stored by one server
MaxEpochs == 12     \* epochs asked of a training run on its own
MaxLoss == 1        \* largest validation loss of an epoch
MaxLifeEpochs == 2  \* epochs asked of a training run beside the inference process
NThreads == 2       \* request threads of the server
MaxCalls == 2       \* calls of detect_anomalies by one thread

(* Program constants *)

SeqLen == 10        \* app.py: seq_length = 10
DetailCap == 100    \* app.py: anomaly_indices[:100]
DefaultThreshold == 3   \* app.py: THRESHOLD = 0.12; errors and thresholds count in units of 0.04

ExpectedFeatures == <<"orig_pkts", "resp_pkts", "orig_bytes", "resp_bytes">>
AllFeatures == Range(ExpectedFeatures)

----------------------------------------------------------------------------
(* Tables.  A row is [id, nan]: id is its position in the file as read,    *)
(* nan says that one of its feature cells is missing.                      *)

Row(i, isNan) == [id |-> i, nan |-> isNan]

\* a file of n rows whose row nanAt (0: none) holds a missing value
Rows(n, nanAt) == [i \in 1..n |-> Row(i, i = nanAt)]

\* a header without column c
DropColumn(cols, c) == SelectSeq(cols, LAMBDA x : x # c)

\* StandardScaler().fit: the mean and the scale of each column are computed
\* from these rows (a missing cell is skipped, the rest of its row counts)
Fit(rows) == [fit_on |-> {rows[i].id : i \in DOMAIN rows}]

\* sklearn refuses to fit on a table of no rows
FitRaises(rows) == rows = <<>>

\* StandardScaler.fit_transform: every row is transformed, position kept, a
\* missing cell stays missing
Normalized(r) == [id |-> r.id, nan |-> r.nan, scaled |-> TRUE]
FitTransform(rows) == [i \in DOMAIN rows |-> Normalized(rows[i])]

----------------------------------------------------------------------------
(* models/preprocess.py: create_sequences *)

CreateSequencesFromZero(data, seq_length) ==
    [i \in 1..(Len(data) - seq_length + 1) |-> SubSeq(data, i, i + seq_length - 1)]

CreateSequences(data, seq_length) ==
    IF Len(data) <= seq_length
    THEN <<>>
    ELSE [i \in 1..(Len(data) - seq_length) |-> SubSeq(data, i, i + seq_length - 1)]

----------------------------------------------------------------------------
(* app.py: preprocess_for_detection.  file = [cols, rows]: the header in   *)
(* file order and the rows.  The result is either the exception raised or  *)
(* the sequences, the columns of their rows and the scaler applied.        *)

Raise(kind, msg) == [raised |-> TRUE, kind |-> kind, msg |-> msg]

MissingFeaturesFirst(cols) ==
    SubSeq(SelectSeq(ExpectedFeatures, LAMBDA f : f \notin Range(cols)), 1, 1)

\* [f for f in expected_features if f not in df.columns]
MissingFeatures(cols) == SelectSeq(ExpectedFeatures, LAMBDA f : f \notin Range(cols))

TooFewRowsStrict(n) == n < SeqLen

\* line 138: len(df_normalized) <= seq_length
TooFewRows(n) == n <= SeqLen

PreprocessForDetection(file) ==
    LET columns == DropColumn(DropColumn(file.cols, "ts"), "label")
        missing_features == MissingFeatures(columns)
        df == file.rows          \* df[expected_features]: every row, four columns
        df_normalized == FitTransform(df)
    IN  IF missing_features # <<>>
        THEN Raise("ValueError", <<"Missing required features", missing_features>>)
        ELSE IF FitRaises(df)
        THEN Raise("ValueError", <<"Found array with 0 sample(s) while a minimum of 1 is required by StandardScaler", <<>>>>)
        ELSE IF TooFewRows(Len(df_normalized))
        THEN Raise("ValueError", <<"File must have more than 10 rows", <<>>>>)
        ELSE [raised |-> FALSE,
              sequences |-> [i \in 1..(Len(df_normalized) - SeqLen) |->
                                SubSeq(df_normalized, i, i + SeqLen - 1)],
              features |-> ExpectedFeatures,
              scaler |-> Fit(df)]

----------------------------------------------------------------------------
(* models/preprocess.py: clean_data, split_train_test, preprocess_pipeline. *)
(* A labelled row is [id, nan, label]; label is the string of its label    *)
(* cell.                                                                   *)

NaN == -1           \* what Series.map leaves for a string that is no key of the mapping

Labels == {"benign", "malicious", "other"}

LabelMap(s) == IF s = "benign" THEN 0 ELSE IF s = "malicious" THEN 1 ELSE NaN

\* clean_data(df, numeric_cols): df.dropna(), then StandardScaler.fit_transform
\* on the columns of numeric_cols that the table has, if it has any
CleanData(df, numeric_cols) ==
    LET df_clean == SelectSeq(df.rows, LAMBDA r : ~r.nan)
        numeric_cols_present == SelectSeq(numeric_cols, LAMBDA col : col \in Range(df.cols))
    IN  IF numeric_cols_present = <<>>
        THEN [raised |-> FALSE, columns |-> df.cols, rows |-> df_clean,
              scaler |-> None, normalized |-> <<>>]
        ELSE IF FitRaises(df_clean)
        THEN Raise("ValueError", <<"Found array with 0 sample(s) while a minimum of 1 is required by StandardScaler", <<>>>>)
        ELSE [raised |-> FALSE, columns |-> df.cols, rows |-> FitTransform(df_clean),
              scaler |-> Some(Fit(df_clean)), normalized |-> numeric_cols_present]

\* sklearn's train_test_split(test_size=0.2): X and y must have one length and
\* the train part must not be empty
SplitTrainTest(X, y) ==
    LET n == Len(X)
        n_test == (n + 4) \div 5
    IN  IF ~IsNone(y) /\ Len(Val(y)) # n
        THEN Raise("ValueError", <<"inconsistent numbers of samples", <<n, Len(Val(y))>>>>)
        ELSE IF n - n_test <= 0
        THEN Raise("ValueError", <<"the resulting train set will be empty", <<n>>>>)
        ELSE [raised |-> FALSE, n_train |-> n - n_test, n_test |-> n_test]

\* preprocess_pipeline(file, numeric_cols, label_col='label', create_seq=True, seq_length)
\* X and y are the values handed to split_train_test; split is what
\* split_train_test gives, or the exception that ended the call before it
PreprocessPipeline(file, numeric_cols, seq_length) ==
    LET y0 == IF "label" \in Range(file.cols)
              THEN Some([i \in DOMAIN file.rows |-> LabelMap(file.rows[i].label)])
              ELSE None
        df == [cols |-> DropColumn(file.cols, "label"), rows |-> file.rows]
        clean == CleanData(df, numeric_cols)
        df_clean == IF clean.raised THEN <<>> ELSE clean.rows
        X == CreateSequences(df_clean, seq_length)
        y == IF ~IsNone(y0) /\ Len(X) > 0
             THEN Some(SubSeq(Val(y0), seq_length + 1, Len(Val(y0))))
             ELSE y0
    IN  IF clean.raised
        THEN [df_clean |-> <<>>, X |-> <<>>, y |-> y0, split |-> clean,
              scaler |-> None, normalized |-> <<>>, feature_names |-> <<>>]
        ELSE [df_clean |-> df_clean, X |-> X, y |-> y, split |-> SplitTrainTest(X, y),
              scaler |-> clean.scaler, normalized |-> clean.normalized,
              feature_names |-> clean.columns]

----------------------------------------------------------------------------
(* Numbers.  A rate is a fraction <<n, d>> with d > 0.  A threshold is the *)
(* real (num + sqrt(rad)) / den with rad >= 0 and den > 0, which holds     *)
(* every value the code computes from integer errors: a constant, a        *)
(* percentile, mean + k*std.                                               *)

Zero == <<0, 1>>
Frac(n, d) == <<n, d>>
RatEq(a, b) == a[1] * b[2] = b[1] * a[2]
RatLe(a, b) == a[1] * b[2] <= b[1] * a[2]
RatLt(a, b) == a[1] * b[2] < b[1] * a[2]
RatSub(a, b) == <<a[1] * b[2] - b[1] * a[2], a[2] * b[2]>>
RatTimes(k, a) == <<k * a[1], a[2]>>

Const(t) == [num |-> t, rad |-> 0, den |-> 1]

\* error > threshold, on floats
ExceedsOrEqual(e, thr) ==
    LET d == e * thr.den - thr.num
    IN  IF d >= 0 THEN d * d >= thr.rad ELSE FALSE

Exceeds(e, thr) ==
    LET d == e * thr.den - thr.num
    IN  d > 0 /\ d * d > thr.rad

\* threshold * 1.5
Times15(thr) == [num |-> 3 * thr.num, rad |-> 9 * thr.rad, den |-> 2 * thr.den]

RECURSIVE SortedSeq(_)
SortedSeq(S) ==
    IF S = {} THEN <<>>
    ELSE LET m == CHOOSE x \in S : \A y \in S : x <= y
         IN  <<m>> \o SortedSeq(S \ {m})

----------------------------------------------------------------------------
(* models/train_model.py: detect_anomalies, evaluate_model *)

\* predictions = (errors > threshold).astype(int)
TrainDetectAnomaliesGe(errors, threshold) ==
    [i \in DOMAIN errors |-> IF ExceedsOrEqual(errors[i], threshold) THEN 1 ELSE 0]

TrainDetectAnomalies(errors, threshold) ==
    [i \in DOMAIN errors |-> IF Exceeds(errors[i], threshold) THEN 1 ELSE 0]

\* sklearn's confusion_matrix(y_true, y_pred).ravel(): one row and one column per
\* label that occurs in y_true or y_pred, in sorted order, flattened row by row
ConfusionMatrixRavel(y_true, y_pred) ==
    LET labels == SortedSeq(Range(y_true) \cup Range(y_pred))
        k == Len(labels)
        Count(t, q) == Cardinality({i \in DOMAIN y_true : y_true[i] = t /\ y_pred[i] = q})
    IN  [c \in 1..(k * k) |-> Count(labels[((c - 1) \div k) + 1], labels[((c - 1) % k) + 1])]

EvaluateModel(y_true, y_pred, threshold) ==
    LET cm == ConfusionMatrixRavel(y_true, y_pred)
    IN  IF Len(cm) # 4
        THEN \* tn, fp, fn, tp = ...ravel() cannot unpack
             Raise("ValueError", <<"tn, fp, fn, tp: cannot unpack values", <<Len(cm)>>>>)
        ELSE
        LET tn == cm[1]
            fp == cm[2]
            fn == cm[3]
            tp == cm[4]
            accuracy == Frac(tp + tn, tp + tn + fp + fn)
            precision == IF tp + fp > 0 THEN Frac(tp, tp + fp) ELSE Zero
            recall == IF tp + fn > 0 THEN Frac(tp, tp + fn) ELSE Zero
            sum == precision[1] * recall[2] + recall[1] * precision[2]
            f1_score == IF sum > 0 THEN Frac(2 * precision[1] * recall[1], sum) ELSE Zero
            false_positive_rate == IF fp + tn > 0 THEN Frac(fp, fp + tn) ELSE Zero
        IN  [raised |-> FALSE,
             accuracy |-> accuracy, precision |-> precision, recall |-> recall,
             f1_score |-> f1_score, detection_rate |-> recall,
             false_positive_rate |-> false_positive_rate,
             true_positives |-> tp, false_positives |-> fp,
             true_negatives |-> tn, false_negatives |-> fn,
             threshold |-> threshold]

----------------------------------------------------------------------------
(* models/optimize_threshold.py: find_optimal_threshold.  A strategy is    *)
(* [kind, k]: "meanstd" with k deviations, or "pct" with percentile k.     *)

RECURSIVE SumSeq(_)
SumSeq(s) == IF s = <<>> THEN 0 ELSE Head(s) + SumSeq(Tail(s))

RECURSIVE NpSort(_)
NpSort(s) ==
    IF s = <<>> THEN <<>>
    ELSE LET i == CHOOSE i \in DOMAIN s : \A j \in DOMAIN s : s[i] <= s[j]
         IN  <<s[i]>> \o NpSort(SubSeq(s, 1, i - 1) \o SubSeq(s, i + 1, Len(s)))

\* np.mean(train_errors) + k * np.std(train_errors)
MeanPlusStd(train_errors, k) ==
    LET n == Len(train_errors)
        S == SumSeq(train_errors)
        Q == SumSeq([i \in DOMAIN train_errors |-> train_errors[i] * train_errors[i]])
    IN  [num |-> S, rad |-> k * k * (n * Q - S * S), den |-> n]

\* np.percentile(train_errors, p), linear interpolation between order statistics
Percentile(train_errors, p) ==
    LET x == NpSort(train_errors)
        n == Len(x)
        lo == (p * (n - 1)) \div 100
        r == (p * (n - 1)) % 100
        step == IF r = 0 THEN 0 ELSE r * (x[lo + 2] - x[lo + 1])
    IN  [num |-> 100 * x[lo + 1] + step, rad |-> 0, den |-> 100]

MeanStd(k) == [kind |-> "meanstd", k |-> k]
Pct(p) == [kind |-> "pct", k |-> p]

\* the strategies dict, in insertion order
Strategies ==
    <<MeanStd(3), MeanStd(2), MeanStd(1), MeanStd(0),
      Pct(95), Pct(90), Pct(85), Pct(80), Pct(75)>>

ThresholdOf(train_errors, strategy) ==
    IF strategy.kind = "meanstd"
    THEN MeanPlusStd(train_errors, strategy.k)
    ELSE Percentile(train_errors, strategy.k)

\* test_pred = (test_errors > threshold).astype(int); evaluate_model(y_test, test_pred, ...)
MetricsAt(c, threshold) ==
    EvaluateModel(c.y_test,
                  [i \in DOMAIN c.test_errors |->
                      IF Exceeds(c.test_errors[i], threshold) THEN 1 ELSE 0],
                  threshold)

\* metrics['detection_rate'] >= 0.85 and metrics['false_positive_rate'] <= target_fpr
Passes(metrics, target_pct) ==
    /\ RatLe(Frac(85, 100), metrics.detection_rate)
    /\ RatLe(metrics.false_positive_rate, Frac(target_pct, 100))

\* best_metrics is None or metrics['detection_rate'] > best_metrics['detection_rate']
ImprovesOrTies(metrics, best_metrics) ==
    IsNone(best_metrics) \/ RatLe(Val(best_metrics).detection_rate, metrics.detection_rate)

Improves(metrics, best_metrics) ==
    IsNone(best_metrics) \/ RatLt(Val(best_metrics).detection_rate, metrics.detection_rate)

\* one iteration of the loop over strategies.items(); an exception of
\* evaluate_model ends the call
Phase1Step(c, strategy, threshold, metrics) ==
    IF metrics.raised
    THEN [c EXCEPT !.pc = "raised", !.exception = Some(metrics)]
    ELSE IF Passes(metrics, c.target_pct) /\ Improves(metrics, c.best_metrics)
    THEN [c EXCEPT !.best_threshold = Some(threshold),
                   !.best_metrics = Some(metrics),
                   !.best_strategy = Some(strategy)]
    ELSE c

\* the loop, from strategy i on (each value is computed once, then bound)
RECURSIVE Phase1From(_, _)
Phase1From(c, i) ==
    IF i > Len(Strategies) THEN c
    ELSE Only({ IF cc.pc = "raised" THEN cc
                ELSE Phase1From(
                       Only({ Phase1Step(cc, Strategies[i], tm[1], tm[2]) :
                                tm \in { <<t, MetricsAt(cc, t)>> :
                                           t \in {ThresholdOf(cc.train_errors, Strategies[i])} } }),
                       i + 1) :
                cc \in {c} })

\* score = detection_rate - fpr * (2 if fpr > target_fpr else 1)
Score(metrics, target_pct) ==
    LET fpr == metrics.false_positive_rate
        fpr_penalty == IF RatLt(Frac(target_pct, 100), fpr) THEN RatTimes(2, fpr) ELSE fpr
    IN  RatSub(metrics.detection_rate, fpr_penalty)

FirstPercentile == 50     \* range(50, 100)
LastPercentile == 99

\* one iteration of the loop over range(50, 100)
Phase2Step(c, percentile, threshold, metrics) ==
    IF metrics.raised
    THEN [c EXCEPT !.pc = "raised", !.exception = Some(metrics)]
    ELSE IF RatLt(c.best_score, Score(metrics, c.target_pct))
    THEN [c EXCEPT !.best_score = Score(metrics, c.target_pct),
                   !.best_threshold = Some(threshold),
                   !.best_metrics = Some(metrics),
                   !.best_strategy = Some(Pct(percentile))]
    ELSE c

\* the loop over the percentiles lo..hi in ascending order, run as its lower
\* half followed by its upper half; after an exception nothing more is run
RECURSIVE Phase2Range(_, _, _)
Phase2Range(c, lo, hi) ==
    IF lo > hi THEN c
    ELSE IF lo = hi
    THEN Only({ IF cc.pc = "raised" THEN cc
                ELSE Only({ Phase2Step(cc, lo, tm[1], tm[2]) :
                              tm \in { <<t, MetricsAt(cc, t)>> :
                                         t \in {Percentile(cc.train_errors, lo)} } }) :
                cc \in {c} })
    ELSE Only({ Phase2Range(cc, ((lo + hi) \div 2) + 1, hi) :
                cc \in {Phase2Range(c, lo, (lo + hi) \div 2)} })

----------------------------------------------------------------------------
(* app.py: detect_anomalies, the classification of the errors *)

\* anomaly_flags = errors > threshold; anomaly_indices = np.where(anomaly_flags)[0]
\* (window indices from 0, ascending)
AnomalyIndices(errors, threshold) ==
    LET anomaly_flags == [i \in DOMAIN errors |-> Exceeds(errors[i], threshold)]
        pos == SelectSeq([i \in DOMAIN errors |-> i], LAMBDA i : anomaly_flags[i])
    IN  [k \in DOMAIN pos |-> pos[k] - 1]

----------------------------------------------------------------------------
(* app.py: load_ml_model.  g = [MODEL, THRESHOLD] are the globals, fs the  *)
(* three files.                                                            *)

\* f"{threshold}\n": the shortest decimal text that reads back as the float
ReprFloat(x) == <<"repr", x>>

\* float(f.read().strip())
ParseFloat(text) == text[2]

LoadMlModelReload(g, fs) ==
    [MODEL |-> fs.model,
     THRESHOLD |->
        IF ~IsNone(fs.thrOpt) THEN Some(ParseFloat(Val(fs.thrOpt)))
        ELSE IF ~IsNone(fs.thr) THEN Some(ParseFloat(Val(fs.thr)))
        ELSE Some(DefaultThreshold),
     read |-> None,
     log |-> <<>>]

LoadMlModel(g, fs) ==
    [MODEL |->
        IF IsNone(g.MODEL) THEN fs.model ELSE g.MODEL,
     THRESHOLD |->
        IF IsNone(g.THRESHOLD)
        THEN IF ~IsNone(fs.thrOpt) THEN Some(ParseFloat(Val(fs.thrOpt)))
             ELSE IF ~IsNone(fs.thr) THEN Some(ParseFloat(Val(fs.thr)))
             ELSE Some(DefaultThreshold)
        ELSE g.THRESHOLD,
     \* the threshold file opened at line 79
     read |->
        IF ~IsNone(g.THRESHOLD) THEN None
        ELSE IF ~IsNone(fs.thrOpt) THEN Some("threshold_optimized.txt")
        ELSE IF ~IsNone(fs.thr) THEN Some("threshold.txt")
        ELSE None,
     \* the lines printed
     log |->
        (IF ~IsNone(g.MODEL) THEN <<>>
         ELSE IF ~IsNone(fs.model) THEN <<"[LOADED] Model loaded">>
         ELSE <<"[WARNING] Model not found">>)
        \o
        (IF ~IsNone(g.THRESHOLD) THEN <<>>
         ELSE IF ~IsNone(fs.thrOpt) \/ ~IsNone(fs.thr) THEN <<"[LOADED] Threshold loaded">>
         ELSE <<"[WARNING] Threshold file not found, using default">>)]

----------------------------------------------------------------------------
(* app.py: send_email_alert.  outcome is what the mail side does: the mail *)
(* account is not configured, the mail is sent, or mail.send raises.       *)

MailOutcomes == {"not_configured", "sent", "smtp_error"}

Min(a, b) == IF a <= b THEN a ELSE b

DetailKeys == {"sequence_id", "error", "severity", "rows"}

\* lines 178-199: the body divides by total_samples, then reads four keys of
\* each of the first five details
MailFormatError(details, total_samples) ==
    IF total_samples = 0 THEN Some("ZeroDivisionError")
    ELSE IF \E k \in 1..Min(Len(details), 5) : ~(DetailKeys \subseteq DOMAIN details[k])
    THEN Some("KeyError")
    ELSE None

Reraised(exception) == exception

\* lines 216-220: except Exception logs and returns; nothing leaves the call
Swallowed(exception) == None

\* the call: the exception met inside the try (None if none), what is printed,
\* and the exception that leaves the call
SendEmailAlert(anomalies_count, details, total_samples, outcome) ==
    LET exception ==
            IF outcome = "not_configured" THEN None
            ELSE IF ~IsNone(MailFormatError(details, total_samples))
            THEN MailFormatError(details, total_samples)
            ELSE IF outcome = "smtp_error" THEN Some("SMTP Error")
            ELSE None
    IN  [anomalies_count |-> anomalies_count, details |-> details,
         total_samples |-> total_samples, outcome |-> outcome,
         sent |-> outcome # "not_configured" /\ IsNone(exception),
         log |-> IF outcome = "not_configured" THEN <<"[WARNING]", "[ALERT]">>
                 ELSE IF IsNone(exception) THEN <<"[EMAIL]">>
                 ELSE <<"[ERROR]", "[ALERT]">>,
         raised |-> IF IsNone(exception) THEN None ELSE Swallowed(exception)]

----------------------------------------------------------------------------
(* app.py: detect_anomalies *)

\* errors = np.mean(np.square(sequences - reconstructed), axis=(1, 2)): what the
\* model gives the windows of this upload, one error per window
WindowError(up, i) == up.pat[((i - 1) % Len(up.pat)) + 1]
ErrorsOf(up, sequences) == [i \in DOMAIN sequences |-> WindowError(up, i)]

SeverityGe(error, threshold) ==
    IF ExceedsOrEqual(error, Times15(Const(threshold))) THEN "High" ELSE "Medium"

\* 'High' if errors[idx] > threshold * 1.5 else 'Medium'
Severity(error, threshold) ==
    IF Exceeds(error, Times15(Const(threshold))) THEN "High" ELSE "Medium"

Uncapped(anomaly_indices) == anomaly_indices

\* anomaly_indices[:100]
Capped(anomaly_indices) == SubSeq(anomaly_indices, 1, Min(Len(anomaly_indices), DetailCap))

Detail(idx, errors, threshold, original_df) ==
    [sequence_id |-> idx,
     rows |-> <<idx, idx + SeqLen>>,
     error |-> errors[idx + 1],
     threshold |-> threshold,
     severity |-> Severity(errors[idx + 1], threshold),
     sample_data |-> original_df[idx + 1].id]

ErrorResult(msg) ==
    [error |-> Some(msg), anomalies_count |-> 0, details |-> <<>>, total_samples |-> 0]

AlertsOnCapped(anomaly_indices, details, sequences, outcome) ==
    IF Len(anomaly_indices) > 0
    THEN <<SendEmailAlert(Len(details), details, Len(sequences), outcome)>>
    ELSE <<>>

\* lines 288-294: the calls of send_email_alert
Alerts(anomaly_indices, details, sequences, outcome) ==
    IF Len(anomaly_indices) > 0
    THEN <<SendEmailAlert(Len(anomaly_indices), details, Len(sequences), outcome)>>
    ELSE <<>>

\* lines 248-296, once the model is loaded and the sequences are built
Detect(threshold, up, sequences, outcome) ==
    LET errors == ErrorsOf(up, sequences)
        anomaly_indices == AnomalyIndices(errors, Const(threshold))
        top == Capped(anomaly_indices)
        details == [k \in DOMAIN top |-> Detail(top[k], errors, threshold, up.rows)]
        alerts == Alerts(anomaly_indices, details, sequences, outcome)
    IN  [result |-> IF alerts # <<>> /\ ~IsNone(alerts[1].raised)
                    THEN ErrorResult(<<Val(alerts[1].raised), <<>>>>)
                    ELSE [error |-> None,
                          anomalies_count |-> Len(anomaly_indices),
                          details |-> details,
                          total_samples |-> Len(sequences),
                          threshold |-> threshold,
                          percentage |-> IF Len(sequences) > 0
                                         THEN Frac(100 * Len(anomaly_indices), Len(sequences))
                                         ELSE Zero],
         alerts |-> alerts]

ModelAlwaysAvailable(model) == FALSE

\* line 237: if model is None
ModelUnavailable(model) == IsNone(model)

\* detect_anomalies(file_path): the globals after the call, the result, the
\* calls of send_email_alert and the functions called, in order.  predict_ok:
\* model.predict returns (it raises on a model that is None); outcome: what the
\* mail side does if it is asked.
DetectAnomalies(g, fs, up, predict_ok, outcome) ==
    LET loaded == LoadMlModel(g, fs)
        pfd == PreprocessForDetection(up)
        done == IF ModelUnavailable(loaded.MODEL)
                THEN [result |-> ErrorResult(<<"Model not loaded. Please train the model first.", <<>>>>),
                      alerts |-> <<>>,
                      steps |-> <<"load_ml_model">>]
                ELSE IF pfd.raised
                THEN [result |-> ErrorResult(pfd.msg), alerts |-> <<>>,
                      steps |-> <<"load_ml_model", "preprocess_for_detection">>]
                ELSE IF ~predict_ok \/ IsNone(loaded.MODEL)
                THEN [result |-> ErrorResult(<<"model.predict raised", <<>>>>), alerts |-> <<>>,
                      steps |-> <<"load_ml_model", "preprocess_for_detection", "predict">>]
                ELSE LET d == Detect(Val(loaded.THRESHOLD), up, pfd.sequences, outcome)
                     IN  [result |-> d.result, alerts |-> d.alerts,
                          steps |-> <<"load_ml_model", "preprocess_for_detection", "predict">>
                                    \o [k \in DOMAIN d.alerts |-> "send_email_alert"]]
    IN  [MODEL |-> loaded.MODEL, THRESHOLD |-> loaded.THRESHOLD,
         result |-> done.result, alerts |-> done.alerts, steps |-> done.steps]

----------------------------------------------------------------------------
(* The two windowers applied to one table *)

WinInit ==
    \E n \in 0..(SeqLen + MaxExtra), L \in 1..MaxL :
      \E nanAt \in 0..n :
        win = [data |-> Rows(n, nanAt), L |-> L, cs |-> None, pfd |-> None]

PreIdle == pre = [file |-> [cols |-> <<>>, rows |-> <<>>], L |-> 1, out |-> None]

EvIdle == ev = [y_true |-> <<>>, errors |-> <<>>, cur |-> None, prev |-> None, metrics |-> None]

CalStart(train_errors, test_errors, y_test, target_pct) ==
    [train_errors |-> train_errors, test_errors |-> test_errors, y_test |-> y_test,
     target_pct |-> target_pct, pc |-> "start",
     best_threshold |-> None, best_metrics |-> None, best_strategy |-> None,
     best_score |-> Zero, phase2 |-> FALSE, exception |-> None, result |-> None]

CalIdle == cal = CalStart(<<>>, <<>>, <<>>, 0)

AppIdle ==
    /\ modelFile = None /\ thrOptFile = None /\ thrFile = None
    /\ MODEL = None /\ THRESHOLD = None
    /\ upload = [cols |-> <<>>, rows |-> <<>>, pat |-> <<0>>]
    /\ call = None
    /\ mailed = None
    /\ loads = None
    /\ db = <<>>
    /\ train = None
    /\ threads = <<>>

\* no scan stored, no training run, no request thread
RestIdle == db = <<>> /\ train = None /\ threads = <<>>

WinIdle == win = [data |-> <<>>, L |-> 1, cs |-> None, pfd |-> None]

\* create_sequences(data, L) on the table
WinCreateSequences ==
    /\ IsNone(win.cs)
    /\ win' = [win EXCEPT !.cs = Some(CreateSequences(win.data, win.L))]
    /\ UNCHANGED NotWin

\* preprocess_for_detection on the same table, all required columns present
WinPreprocessForDetection ==
    /\ IsNone(win.pfd)
    /\ win' = [win EXCEPT !.pfd =
                  Some(PreprocessForDetection([cols |-> ExpectedFeatures, rows |-> win.data]))]
    /\ UNCHANGED NotWin

----------------------------------------------------------------------------
(* preprocess_pipeline applied to one table *)

LabelledRows(n) ==
    { [i \in 1..n |-> [id |-> i, nan |-> nans[i], label |-> labs[i]]] :
          nans \in [1..n -> BOOLEAN], labs \in [1..n -> Labels] }

\* headers of training files: the four features alone and with a label, in
\* another order with a timestamp, with a feature absent, with none at all
PreHeaders ==
    { ExpectedFeatures,
      ExpectedFeatures \o <<"label">>,
      <<"ts", "resp_bytes", "orig_bytes", "resp_pkts", "orig_pkts", "label">>,
      <<"ts", "orig_pkts", "resp_pkts", "orig_bytes", "label">>,
      <<"ts", "label">> }

PreInit ==
    \E n \in 0..MaxPreRows, L \in 1..MaxPreL, cols \in PreHeaders :
      \E rows \in LabelledRows(n) :
        pre = [file |-> [cols |-> cols, rows |-> rows], L |-> L, out |-> None]

\* numeric_cols=['orig_pkts', 'resp_pkts', 'orig_bytes', 'resp_bytes']
PrePipeline ==
    /\ IsNone(pre.out)
    /\ pre' = [pre EXCEPT !.out = Some(PreprocessPipeline(pre.file, ExpectedFeatures, pre.L))]
    /\ UNCHANGED NotPre

SpecPreInit == PreInit /\ WinIdle /\ EvIdle /\ CalIdle /\ AppIdle
SpecPreNext == PrePipeline
SpecPre == SpecPreInit /\ [][SpecPreNext]_vars

\* C2: with a label column, the label attached to window i is the label of the
\* row at index i+L of the rows the windows were built from (the cleaned rows).
C2_LabelOfNextRow ==
    (~IsNone(pre.out) /\ ~IsNone(Val(pre.out).y)) =>
        LET o == Val(pre.out)
        IN  \A k \in 1..Len(o.X) :
              /\ k <= Len(Val(o.y))
              /\ Val(o.y)[k] = LabelMap(pre.file.rows[o.df_clean[k + pre.L].id].label)


SpecWinInit == WinInit /\ PreIdle /\ EvIdle /\ CalIdle /\ AppIdle
SpecWinNext == WinCreateSequences \/ WinPreprocessForDetection
SpecWin == SpecWinInit /\ [][SpecWinNext]_vars

\* C1: create_sequences yields N-L windows when N > L and none when N <= L, and
\* so does the windowing of preprocess_for_detection with L = 10 (which raises
\* when N <= 10); window i (0 <= i < N-L) is rows i .. i+L-1 in file order.
WindowsOf(seqs, N, L) ==
    /\ Len(seqs) = (IF N > L THEN N - L ELSE 0)
    /\ \A i \in 0..(N - L - 1) :
          /\ Len(seqs[i + 1]) = L
          /\ \A j \in 1..L : seqs[i + 1][j].id = win.data[i + j].id

C1_WindowCount ==
    LET N == Len(win.data)
    IN  /\ ~IsNone(win.cs) => WindowsOf(Val(win.cs), N, win.L)
        /\ ~IsNone(win.pfd) =>
              IF Val(win.pfd).raised
              THEN N <= SeqLen
              ELSE WindowsOf(Val(win.pfd).sequences, N, SeqLen) /\ N > SeqLen

C1_Witness ==
    /\ ~IsNone(win.cs) /\ ~IsNone(win.pfd)
    /\ Len(win.data) > SeqLen
    /\ Len(Val(win.cs)) = Len(win.data) - win.L
    /\ ~Val(win.pfd).raised
    /\ Len(Val(win.pfd).sequences) = MaxExtra

----------------------------------------------------------------------------
(* Classification and evaluation of one held-out split: steps 5 and 6 of   *)
(* train_lstm_autoencoder (detect_anomalies, then evaluate_model), and the *)
(* flags app.detect_anomalies computes from the same errors.               *)

EvInit ==
    \E n \in 0..MaxEvLen :
      \E y_true \in [1..n -> {0, 1}], errors \in [1..n -> 0..MaxEvErr] :
        ev = [y_true |-> y_true, errors |-> errors,
              cur |-> None, prev |-> None, metrics |-> None]

\* classify the errors at threshold t
EvClassify ==
    \E t \in 0..MaxEvErr :
      /\ IsNone(ev.prev)
      /\ ev' = [ev EXCEPT
                  !.prev = ev.cur,
                  !.cur = Some([t |-> t,
                                pred |-> TrainDetectAnomalies(ev.errors, Const(t)),
                                indices |-> AnomalyIndices(ev.errors, Const(t))]),
                  !.metrics = None]
      /\ UNCHANGED NotEv

\* evaluate_model(y_true, pred, errors, threshold)
EvEvaluate ==
    /\ ~IsNone(ev.cur)
    /\ IsNone(ev.metrics)
    /\ ev' = [ev EXCEPT !.metrics =
                 Some(EvaluateModel(ev.y_true, Val(ev.cur).pred, Const(Val(ev.cur).t)))]
    /\ UNCHANGED NotEv

SpecEvalInit == EvInit /\ WinIdle /\ PreIdle /\ CalIdle /\ AppIdle
SpecEvalNext == EvClassify \/ EvEvaluate
SpecEval == SpecEvalInit /\ [][SpecEvalNext]_vars

CountWhere(y_true, y_pred, t, q) ==
    Cardinality({i \in DOMAIN y_true : y_true[i] = t /\ y_pred[i] = q})

\* C6: evaluate_model never raises; accuracy = (tp+tn)/(tp+tn+fp+fn); a rate
\* whose denominator is 0 is 0; detection_rate equals recall.
C6_EvaluateNeverRaises ==
    ~IsNone(ev.metrics) =>
        LET m == Val(ev.metrics)
            pred == Val(ev.cur).pred
            tp == CountWhere(ev.y_true, pred, 1, 1)
            tn == CountWhere(ev.y_true, pred, 0, 0)
            fp == CountWhere(ev.y_true, pred, 0, 1)
            fn == CountWhere(ev.y_true, pred, 1, 0)
            Rate(n, d) == IF d = 0 THEN Zero ELSE Frac(n, d)
        IN  /\ ~m.raised
            /\ RatEq(m.accuracy, Rate(tp + tn, tp + tn + fp + fn))
            /\ RatEq(m.precision, Rate(tp, tp + fp))
            /\ RatEq(m.recall, Rate(tp, tp + fn))
            /\ RatEq(m.f1_score, Rate(2 * tp, 2 * tp + fp + fn))
            /\ RatEq(m.false_positive_rate, Rate(fp, fp + tn))
            /\ m.detection_rate = m.recall

\* C7: a window is flagged exactly when its error is strictly greater than the
\* threshold, by train_model.detect_anomalies and by app.detect_anomalies; for
\* thresholds t1 <= t2 every window flagged at t2 is flagged at t1.
Flagged(c) == {i \in DOMAIN c.pred : c.pred[i] = 1}

StrictlyAbove(c) ==
    /\ \A i \in DOMAIN ev.errors : (c.pred[i] = 1) <=> (ev.errors[i] > c.t)
    /\ Range(c.indices) = {i - 1 : i \in {j \in DOMAIN ev.errors : ev.errors[j] > c.t}}

C7_StrictAndMonotone ==
    /\ ~IsNone(ev.cur) => StrictlyAbove(Val(ev.cur))
    /\ (~IsNone(ev.cur) /\ ~IsNone(ev.prev)) =>
          LET lo == IF Val(ev.cur).t <= Val(ev.prev).t THEN Val(ev.cur) ELSE Val(ev.prev)
              hi == IF Val(ev.cur).t <= Val(ev.prev).t THEN Val(ev.prev) ELSE Val(ev.cur)
          IN  /\ Flagged(hi) \subseteq Flagged(lo)
              /\ Cardinality(Flagged(hi)) <= Cardinality(Flagged(lo))
              /\ Len(hi.indices) <= Len(lo.indices)

\* an error equal to the threshold is left normal, and raising the threshold
\* drops a window that the lower threshold flagged
C7_Witness ==
    /\ ~IsNone(ev.cur) /\ ~IsNone(ev.prev)
    /\ Val(ev.prev).t < Val(ev.cur).t
    /\ \E i \in DOMAIN ev.errors :
          /\ ev.errors[i] = Val(ev.cur).t
          /\ Val(ev.cur).pred[i] = 0
          /\ Val(ev.prev).pred[i] = 1

----------------------------------------------------------------------------
(* One call of find_optimal_threshold.  The held-out split is a set of     *)
(* groups; a group is cnt windows with one error and one label.  The train *)
(* errors are drawn in ascending order: mean, std and percentile do not    *)
(* depend on the order.                                                    *)

Groups ==
    { [err |-> e, lab |-> l, cnt |-> n] :
          e \in 0..MaxTestErr, l \in {0, 1}, n \in {1, BigCount} } \
    { [err |-> e, lab |-> 0, cnt |-> BigCount] : e \in 0..MaxTestErr }

RECURSIVE Expand(_)
Expand(gs) ==
    IF gs = {} THEN <<>>
    ELSE LET g == CHOOSE g \in gs :
                    \A h \in gs : <<g.err, g.lab, g.cnt>> = <<h.err, h.lab, h.cnt>>
                                  \/ g.err < h.err
                                  \/ (g.err = h.err /\ g.lab < h.lab)
                                  \/ (g.err = h.err /\ g.lab = h.lab /\ g.cnt < h.cnt)
         IN  [i \in 1..g.cnt |-> g] \o Expand(gs \ {g})

TargetPcts == {10, 50}     \* target_fpr = 0.10 (the default) and 0.50

CalInit ==
    \E n \in 1..MaxTrain, gs \in SUBSET Groups, target_pct \in TargetPcts :
      \E train_errors \in [1..n -> 0..MaxTrainErr] :
        /\ gs # {} /\ Cardinality(gs) <= MaxGroups
        /\ \A i \in 1..(n - 1) : train_errors[i] <= train_errors[i + 1]
        /\ LET held == Expand(gs)
           IN  cal = CalStart(train_errors,
                              [i \in DOMAIN held |-> held[i].err],
                              [i \in DOMAIN held |-> held[i].lab],
                              target_pct)

\* lines 43-86: the nine strategies
CalPhase1 ==
    /\ cal.pc = "start"
    /\ cal' = LET c == Phase1From(cal, 1)
              IN  IF c.pc = "raised" THEN c ELSE [c EXCEPT !.pc = "phase1_done"]
    /\ UNCHANGED NotCal

\* lines 89-110: the percentile sweep, run if best_threshold is None
CalPhase2 ==
    /\ cal.pc = "phase1_done"
    /\ IsNone(cal.best_threshold)
    /\ cal' = LET c == Phase2Range([cal EXCEPT !.best_score = Frac(0 - 1, 1), !.phase2 = TRUE],
                                   FirstPercentile, LastPercentile)
              IN  IF c.pc = "raised" THEN c ELSE [c EXCEPT !.pc = "phase2_done"]
    /\ UNCHANGED NotCal

\* lines 112-126: the report formats best_threshold with {:.6f}, which raises
\* TypeError for None; then the three values are returned
CalReport ==
    /\ \/ cal.pc = "phase2_done"
       \/ cal.pc = "phase1_done" /\ ~IsNone(cal.best_threshold)
    /\ cal' = IF IsNone(cal.best_threshold)
              THEN [cal EXCEPT !.pc = "raised",
                               !.exception = Some(Raise("TypeError",
                                   <<"unsupported format string passed to NoneType", <<>>>>))]
              ELSE [cal EXCEPT !.pc = "returned",
                               !.result = Some([threshold |-> Val(cal.best_threshold),
                                                strategy |-> Val(cal.best_strategy),
                                                test_metrics |-> Val(cal.best_metrics)])]
    /\ UNCHANGED NotCal

SpecCalInit == CalInit /\ WinIdle /\ PreIdle /\ EvIdle /\ AppIdle
SpecCalNext == CalPhase1 \/ CalPhase2 \/ CalReport
SpecCal == SpecCalInit /\ [][SpecCalNext]_vars

\* what find_optimal_threshold sees of strategy i and of percentile p
StrategyMetrics(i) == MetricsAt(cal, ThresholdOf(cal.train_errors, Strategies[i]))
PercentileMetrics(p) == MetricsAt(cal, Percentile(cal.train_errors, p))

\* the nine strategies were evaluated, none with an exception
Phase1Completed ==
    \/ cal.pc \in {"phase1_done", "phase2_done", "returned"}
    \/ cal.pc = "raised" /\ cal.phase2

DetectionRate(i) == StrategyMetrics(i).detection_rate

Qualifying ==
    { i \in DOMAIN Strategies :
        LET m == StrategyMetrics(i)
        IN  /\ 100 * m.detection_rate[1] >= 85 * m.detection_rate[2]
            /\ 100 * m.false_positive_rate[1] <= cal.target_pct * m.false_positive_rate[2] }

PercentileScore(p) == Score(PercentileMetrics(p), cal.target_pct)

\* C4: when no Phase-1 strategy qualifies, the sweep over percentiles 50..99
\* ends with the percentile of maximal score chosen, the lowest one on ties.
C4_Phase2ArgMax ==
    cal.pc = "phase2_done" =>
        \E p \in FirstPercentile..LastPercentile :
            /\ \A q \in FirstPercentile..LastPercentile :
                  RatLe(PercentileScore(q), PercentileScore(p))
            /\ \A q \in FirstPercentile..(p - 1) :
                  RatLt(PercentileScore(q), PercentileScore(p))
            /\ cal.best_strategy = Some(Pct(p))
            /\ cal.best_threshold = Some(Percentile(cal.train_errors, p))

\* C5: when the search has run to its end, the threshold, the strategy and the
\* metrics are all set, also after Phase 2.
C5_OutputsSet ==
    cal.pc \in {"phase1_done", "phase2_done", "returned"} =>
        \/ cal.pc = "phase1_done" /\ IsNone(cal.best_threshold)
        \/ /\ ~IsNone(cal.best_threshold)
           /\ ~IsNone(cal.best_strategy)
           /\ ~IsNone(cal.best_metrics)

----------------------------------------------------------------------------
(* The inference process: load_ml_model at startup or from /status, and    *)
(* detect_anomalies on the uploaded file.                                  *)

Globals == [MODEL |-> MODEL, THRESHOLD |-> THRESHOLD]
Fs == [model |-> modelFile, thrOpt |-> thrOptFile, thr |-> thrFile]

\* the record of a call of load_ml_model: whether it was the first to set the
\* threshold, the threshold file it read, what it printed, and the threshold
\* files as they were when the model was loaded (by this call or an earlier one)
Loaded ==
    [first |-> IsNone(THRESHOLD),
     read |-> LoadMlModel(Globals, Fs).read,
     log |-> LoadMlModel(Globals, Fs).log,
     with_model |-> IF IsNone(MODEL) /\ ~IsNone(modelFile)
                    THEN Some([thrOpt |-> thrOptFile, thr |-> thrFile])
                    ELSE IF IsNone(loads) THEN None ELSE Val(loads).with_model]

RowCounts ==
    {0} \cup ((SeqLen - 1)..(SeqLen + MaxExtra))
        \cup ((SeqLen + DetailCap - 1)..(SeqLen + DetailCap + MaxExtra))
        \cup ((SeqLen + 2 * DetailCap + 1)..(SeqLen + 2 * DetailCap + MaxExtra))

\* headers of uploads that lack required columns: one, two, all but one, all
PartialHeaders ==
    { <<"ts">> \o DropColumn(ExpectedFeatures, "resp_bytes"),
      <<"orig_bytes", "resp_pkts", "label">>,
      <<"resp_pkts">>,
      <<"col1", "col2">> }

Uploads ==
    { [cols |-> <<"ts">> \o ExpectedFeatures \o <<"label">>, rows |-> Rows(n, 0), pat |-> pat] :
          n \in RowCounts, pat \in [1..PatLen -> 0..MaxErr] }
    \cup
    { [cols |-> cols, rows |-> Rows(n, 0), pat |-> [i \in 1..PatLen |-> MaxErr]] :
          n \in {SeqLen - 1, SeqLen + MaxExtra}, cols \in PartialHeaders }

ThresholdFiles == {None, Some(ReprFloat(0)), Some(ReprFloat(MaxThr))}

AppInit ==
    /\ modelFile \in {None, Some("lstm_model")}
    /\ thrOptFile \in ThresholdFiles
    /\ thrFile \in ThresholdFiles
    /\ MODEL = None
    /\ THRESHOLD = None
    /\ upload \in Uploads
    /\ call = None
    /\ mailed = None
    /\ loads = None

\* load_ml_model() at startup, or in get_status
AppLoadMlModel ==
    /\ MODEL' = LoadMlModel(Globals, Fs).MODEL
    /\ THRESHOLD' = LoadMlModel(Globals, Fs).THRESHOLD
    /\ loads' = Some(Loaded)
    /\ UNCHANGED <<files, upload, call, mailed>>
    /\ UNCHANGED NotApp

\* detect_anomalies(file_path) on the uploaded file
AppDetectAnomalies ==
    \E predict_ok \in BOOLEAN, outcome \in MailOutcomes :
      \E r \in {DetectAnomalies(Globals, Fs, upload, predict_ok, outcome)} :
        /\ MODEL' = r.MODEL
        /\ THRESHOLD' = r.THRESHOLD
        /\ call' = Some([result |-> r.result, alerts |-> r.alerts, steps |-> r.steps])
        /\ loads' = Some(Loaded)
        /\ UNCHANGED <<files, upload, mailed>>
        /\ UNCHANGED NotApp

SpecAppInit == AppInit /\ WinIdle /\ PreIdle /\ EvIdle /\ CalIdle /\ RestIdle
SpecAppNext == AppLoadMlModel \/ AppDetectAnomalies
SpecApp == SpecAppInit /\ [][SpecAppNext]_vars

\* the windows of the upload (indices from 0) whose error is above threshold t
WindowCount == Len(upload.rows) - SeqLen
Anomalous(t) == {i \in 0..(WindowCount - 1) : WindowError(upload, i + 1) > t}
Succeeded == ~IsNone(call) /\ IsNone(Val(call).result.error)

\* C8: every entry of details belongs to a window whose error is strictly
\* above the threshold; its severity is "High" exactly when error > 1.5 *
\* threshold and "Medium" otherwise.
C8_Severity ==
    ~IsNone(call) =>
        LET r == Val(call).result
        IN  IF ~IsNone(r.error) THEN r.details = <<>>
            ELSE \A k \in DOMAIN r.details :
                   LET d == r.details[k]
                       e == WindowError(upload, d.sequence_id + 1)
                   IN  /\ d.sequence_id \in Anomalous(r.threshold)
                       /\ d.error = e
                       /\ e > r.threshold
                       /\ d.severity = (IF 2 * e > 3 * r.threshold THEN "High" ELSE "Medium")

\* details with a "High" entry and a "Medium" entry whose error is exactly
\* 1.5 * threshold
C8_Witness ==
    /\ Succeeded
    /\ LET r == Val(call).result
       IN  /\ \E k \in DOMAIN r.details :
                 r.details[k].severity = "Medium" /\ 2 * r.details[k].error = 3 * r.threshold
           /\ \E k \in DOMAIN r.details : r.details[k].severity = "High"

\* C9: a successful result reports total_samples = number of windows,
\* anomalies_count = the uncapped number of windows with error > threshold, the
\* threshold applied, and min(anomalies_count, 100) details: the anomalous
\* windows of lowest index, in strictly ascending order.
C9_ResultShape ==
    Succeeded =>
        LET r == Val(call).result
            ids == {r.details[k].sequence_id : k \in DOMAIN r.details}
        IN  /\ r.total_samples = WindowCount
            /\ r.threshold = Val(THRESHOLD)
            /\ r.anomalies_count = Cardinality(Anomalous(r.threshold))
            /\ 0 <= r.anomalies_count /\ r.anomalies_count <= r.total_samples
            /\ Len(r.details) = Min(r.anomalies_count, DetailCap)
            /\ \A k \in 1..(Len(r.details) - 1) :
                  r.details[k].sequence_id < r.details[k + 1].sequence_id
            /\ ids \subseteq Anomalous(r.threshold)
            /\ \A i \in Anomalous(r.threshold) \ ids : \A j \in ids : j < i

\* more than 100 anomalous windows: the details stop at 100
C9_Witness ==
    /\ Succeeded
    /\ Val(call).result.anomalies_count > DetailCap
    /\ Len(Val(call).result.details) = DetailCap
    /\ Val(call).result.anomalies_count < Val(call).result.total_samples

\* C10: detect_anomalies calls send_email_alert exactly once when the anomaly
\* count is above 0, with the uncapped count, the details and the number of
\* windows, and never when the count is 0 or the result is an error.
C10_AlertOnce ==
    ~IsNone(call) =>
        LET c == Val(call)
        IN  IF IsNone(c.result.error) /\ Cardinality(Anomalous(c.result.threshold)) > 0
            THEN /\ Len(c.alerts) = 1
                 /\ c.alerts[1].anomalies_count = Cardinality(Anomalous(c.result.threshold))
                 /\ c.alerts[1].details = c.result.details
                 /\ c.alerts[1].total_samples = WindowCount
            ELSE c.alerts = <<>>

\* one alert, for more anomalies than the details hold
C10_Witness ==
    /\ Succeeded
    /\ Len(Val(call).alerts) = 1
    /\ Val(call).alerts[1].anomalies_count > Len(Val(call).alerts[1].details)
    /\ Val(call).alerts[1].total_samples > Val(call).alerts[1].anomalies_count

----------------------------------------------------------------------------
(* The notification: detect_anomalies on small uploads with a model on     *)
(* disk, and send_email_alert called on its own, as tests.py does.         *)

MailUploads ==
    { [cols |-> <<"ts">> \o ExpectedFeatures \o <<"label">>, rows |-> Rows(n, 0), pat |-> pat] :
          n \in (SeqLen + 1)..(SeqLen + MaxExtra), pat \in [1..PatLen -> {0, MaxErr}] }

WellFormedDetail == Detail(0, <<MaxErr>>, 0, Rows(1, 0))
MalformedDetail == [sequence_id |-> 1]

\* the sixth detail is never read
MailDetails ==
    { <<>>, <<WellFormedDetail>>, <<MalformedDetail>>,
      <<WellFormedDetail, MalformedDetail>>,
      [k \in 1..6 |-> IF k = 6 THEN MalformedDetail ELSE WellFormedDetail] }

MailInit ==
    /\ modelFile = Some("lstm_model")
    /\ thrOptFile \in ThresholdFiles
    /\ thrFile = None
    /\ MODEL = None
    /\ THRESHOLD = None
    /\ upload \in MailUploads
    /\ call = None
    /\ mailed = None
    /\ loads = None

\* send_email_alert(anomalies_count, details, total_samples)
MailSendEmailAlert ==
    \E anomalies_count \in 0..MaxMailArg, total_samples \in 0..MaxMailArg,
       details \in MailDetails, outcome \in MailOutcomes :
      /\ mailed' = Some(SendEmailAlert(anomalies_count, details, total_samples, outcome))
      /\ UNCHANGED <<files, MODEL, THRESHOLD, upload, call, loads>>
      /\ UNCHANGED NotApp

SpecMailInit == MailInit /\ WinIdle /\ PreIdle /\ EvIdle /\ CalIdle /\ RestIdle
SpecMailNext == AppLoadMlModel \/ AppDetectAnomalies \/ MailSendEmailAlert
SpecMail == SpecMailInit /\ [][SpecMailNext]_vars

\* C11: no failure of the notification (mail not configured, mail.send
\* raising, malformed details) leaves send_email_alert, and none changes the
\* detection result: whenever detect_anomalies has called the notification,
\* the result has no error and carries the anomaly count, the details, the
\* number of windows and the threshold, whatever the notification did.
C11_AlertFailureSwallowed ==
    /\ ~IsNone(mailed) => IsNone(Val(mailed).raised)
    /\ ~IsNone(call) =>
          LET c == Val(call)
          IN  c.alerts # <<>> =>
                /\ IsNone(c.alerts[1].raised)
                /\ IsNone(c.result.error)
                /\ c.result.threshold = Val(THRESHOLD)
                /\ c.result.anomalies_count = Cardinality(Anomalous(c.result.threshold))
                /\ c.result.total_samples = WindowCount
                /\ Len(c.result.details) = Min(c.result.anomalies_count, DetailCap)
                /\ \A k \in DOMAIN c.result.details :
                      c.result.details[k].sequence_id \in Anomalous(c.result.threshold)

\* a detection whose mail.send raised, and a direct call with a malformed
\* detail: both logged, neither raised
C11_Witness ==
    /\ Succeeded
    /\ Len(Val(call).alerts) = 1
    /\ Val(call).alerts[1].outcome = "smtp_error"
    /\ Val(call).alerts[1].log[1] = "[ERROR]"
    /\ Val(call).result.anomalies_count > 0
    /\ ~IsNone(mailed)
    /\ Val(mailed).details = <<MalformedDetail>>
    /\ Val(mailed).total_samples > 0
    /\ Val(mailed).log[1] = "[ERROR]"
    /\ IsNone(Val(mailed).raised)

----------------------------------------------------------------------------
(* Error handling of the inference process *)

\* C12: with no model file on disk detect_anomalies does not raise; it returns
\* a result with an 'error' message, anomalies_count 0, no details and
\* total_samples 0, and neither preprocesses the upload nor calls the
\* notification.
C12_ModelUnavailable ==
    (~IsNone(call) /\ IsNone(modelFile)) =>
        LET c == Val(call)
        IN  /\ c.result = ErrorResult(<<"Model not loaded. Please train the model first.", <<>>>>)
            /\ ~IsNone(c.result.error)
            /\ c.result.anomalies_count = 0
            /\ c.result.details = <<>>
            /\ c.result.total_samples = 0
            /\ c.steps = <<"load_ml_model">>
            /\ c.alerts = <<>>

\* no model file, and an upload whose windows would all be anomalous
C12_Witness ==
    /\ ~IsNone(call)
    /\ IsNone(modelFile)
    /\ IsNone(MODEL)
    /\ ~IsNone(THRESHOLD)
    /\ WindowCount > 0
    /\ Cardinality(Anomalous(Val(THRESHOLD))) = WindowCount
    /\ ~IsNone(Val(call).result.error)

\* the fallback steps a first threshold load takes: from the optimized file to
\* the baseline file, and from the baseline file to the default
FallbackSteps ==
    IF ~IsNone(thrOptFile) THEN 0 ELSE IF ~IsNone(thrFile) THEN 1 ELSE 2

\* the printed lines that report a threshold fallback
FallbackLines(log) ==
    {k \in DOMAIN log : log[k] = "[WARNING] Threshold file not found, using default"}

Absent == {f \in AllFeatures : f \notin Range(upload.cols)}

\* C14: with a model loaded, an upload of at most 10 rows (5 rows, 0 rows)
\* gives no window and an error result that says the rows are too few: no
\* exception leaves detect_anomalies, and no successful result of 0 samples
\* is returned.
C14_TooFewRows ==
    (~IsNone(call) /\ ~IsNone(modelFile) /\ Absent = {} /\ Len(upload.rows) <= SeqLen) =>
        LET c == Val(call)
        IN  /\ ~IsNone(c.result.error)
            /\ Val(c.result.error) =
                  (IF Len(upload.rows) = 0
                   THEN <<"Found array with 0 sample(s) while a minimum of 1 is required by StandardScaler", <<>>>>
                   ELSE <<"File must have more than 10 rows", <<>>>>)
            /\ c.result.anomalies_count = 0
            /\ c.result.details = <<>>
            /\ c.result.total_samples = 0
            /\ c.steps = <<"load_ml_model", "preprocess_for_detection">>
            /\ c.alerts = <<>>

\* exactly 10 rows, a model loaded
C14_Witness ==
    /\ ~IsNone(call)
    /\ ~IsNone(MODEL)
    /\ Absent = {}
    /\ Len(upload.rows) = SeqLen
    /\ Val(call).result.error = Some(<<"File must have more than 10 rows", <<>>>>)

----------------------------------------------------------------------------
(* app.py: upload_file, the handler of POST /upload.  A request is          *)
(* [has_file, filename]; a file name is its parts, the last one its         *)
(* extension, and <<>> is the empty name.                                  *)

EndsWithCsv(filename) == filename # <<>> /\ filename[Len(filename)] = ".csv"

Response(status, body) == [status |-> status, body |-> body]

RejectionNoExtension(request) ==
    IF ~request.has_file
    THEN Some(Response(400, [error |-> Some(<<"No file provided", <<>>>>)]))
    ELSE IF request.filename = <<>>
    THEN Some(Response(400, [error |-> Some(<<"No file selected", <<>>>>)]))
    ELSE None

\* lines 327-338: what is answered before the file is looked at, if anything
Rejection(request) ==
    IF ~request.has_file
    THEN Some(Response(400, [error |-> Some(<<"No file provided", <<>>>>)]))
    ELSE IF request.filename = <<>>
    THEN Some(Response(400, [error |-> Some(<<"No file selected", <<>>>>)]))
    ELSE IF ~EndsWithCsv(request.filename)
    THEN Some(Response(400, [error |-> Some(<<"Only CSV files are allowed", <<>>>>)]))
    ELSE None

\* line 350-351: 'error' in result answers 500
ErrorStatus(result) == 500

\* json.dumps and json.loads of the details: a text that holds them
JsonDumps(details) == <<"json", details>>
JsonLoads(text) == text[2]

\* lines 354-357: the row of the scan.  SQLite gives the next id (no row is
\* ever deleted) and the clock the timestamp, later for a later row.
ScanRow(table, result) ==
    [id |-> Len(table) + 1, timestamp |-> Len(table) + 1,
     anomalies_count |-> result.anomalies_count,
     details |-> JsonDumps(result.details)]

StoredAlways(table, result, db_ok) == Append(table, ScanRow(table, result))

\* lines 350-359: the table after the handler; db_ok: the commit returns
Stored(table, result, db_ok) ==
    IF IsNone(result.error) /\ db_ok THEN Append(table, ScanRow(table, result)) ELSE table

\* lines 341-369: what the handler calls once its three checks have passed
Handled(result) ==
    <<"NamedTemporaryFile", "file.save", "detect_anomalies">>
    \o (IF IsNone(result.error) THEN <<"db.session.add", "db.session.commit">> ELSE <<>>)
    \o <<"os.remove">>

\* lines 347-372, from the result of detect_anomalies
Answer(result, db_ok, scan_id) ==
    IF ~IsNone(result.error) THEN Response(ErrorStatus(result), result)
    ELSE IF ~db_ok
    THEN Response(500, [error |-> Some(<<"Server error", <<>>>>)])
    ELSE Response(200, [scan_id |-> scan_id] @@ result)

\* ScanResult.to_dict
ToDict(row) ==
    [id |-> row.id, timestamp |-> row.timestamp, anomalies_count |-> row.anomalies_count,
     details |-> JsonLoads(row.details)]

\* GET /scan/<scan_id>
GetScanDetails(table, scan_id) ==
    IF \E k \in DOMAIN table : table[k].id = scan_id
    THEN Response(200, ToDict(table[CHOOSE k \in DOMAIN table : table[k].id = scan_id]))
    ELSE Response(404, [error |-> Some(<<"Scan not found", <<>>>>)])

HistoryLimit == 50

OldestFirst(table) == table

\* order_by(ScanResult.timestamp.desc()): the table holds its rows by rising timestamp
MostRecentFirst(table) == [k \in DOMAIN table |-> table[Len(table) + 1 - k]]

\* GET /history
GetHistory(table) ==
    LET results == SubSeq(MostRecentFirst(table), 1, Min(Len(table), HistoryLimit))
    IN  Response(200, [k \in DOMAIN results |-> ToDict(results[k])])

Requests ==
    { [has_file |-> FALSE, filename |-> <<>>],
      [has_file |-> TRUE, filename |-> <<>>],
      [has_file |-> TRUE, filename |-> <<"traffic", ".txt">>],
      [has_file |-> TRUE, filename |-> <<"traffic", ".CSV">>],
      [has_file |-> TRUE, filename |-> <<"traffic", ".csv">>] }

UploadUploads ==
    { [cols |-> cols, rows |-> Rows(n, 0), pat |-> [i \in 1..PatLen |-> MaxErr]] :
          n \in {0, SeqLen - 1, SeqLen + MaxExtra}, cols \in PartialHeaders }
    \cup
    { [cols |-> ExpectedFeatures, rows |-> Rows(n, 0), pat |-> pat] :
          n \in (SeqLen + 1)..(SeqLen + MaxExtra), pat \in [1..PatLen -> {0, MaxErr}] }

UploadInit ==
    /\ modelFile \in {None, Some("lstm_model")}
    /\ thrOptFile \in ThresholdFiles
    /\ thrFile = None
    /\ MODEL = None
    /\ THRESHOLD = None
    /\ upload \in UploadUploads
    /\ call = None
    /\ mailed = None
    /\ loads = None

\* POST /upload with the uploaded file.  A call is recorded with the number
\* of rows the table held before it (rows_before) and what the handler
\* called (did).
AppUploadFile ==
    \E request \in Requests, predict_ok \in BOOLEAN, outcome \in MailOutcomes, db_ok \in BOOLEAN :
      /\ Len(db) < MaxScans
      /\ IF ~IsNone(Rejection(request))
         THEN /\ call' = Some([request |-> request, response |-> Val(Rejection(request)),
                               steps |-> <<>>, alerts |-> <<>>, did |-> <<>>,
                               rows_before |-> Len(db)])
              /\ UNCHANGED <<files, MODEL, THRESHOLD, upload, mailed, loads, db>>
              /\ UNCHANGED NotUpload
         ELSE \E r \in {DetectAnomalies(Globals, Fs, upload, predict_ok, outcome)} :
             /\ MODEL' = r.MODEL
             /\ THRESHOLD' = r.THRESHOLD
             /\ db' = Stored(db, r.result, db_ok)
             /\ call' = Some([request |-> request,
                              response |-> Answer(r.result, db_ok, ScanRow(db, r.result).id),
                              result |-> r.result, steps |-> r.steps, alerts |-> r.alerts,
                              did |-> Handled(r.result), rows_before |-> Len(db)])
             /\ loads' = Some(Loaded)
             /\ UNCHANGED <<files, upload, mailed>>
             /\ UNCHANGED NotUpload

SpecUploadInit == UploadInit /\ WinIdle /\ PreIdle /\ EvIdle /\ CalIdle /\ RestIdle
SpecUploadNext == AppLoadMlModel \/ AppUploadFile
SpecUpload == SpecUploadInit /\ [][SpecUploadNext]_vars

\* C15: with a model loaded, an upload that lacks required columns fails with
\* a validation error whose message names exactly the absent required columns,
\* and the upload is answered 500 with an 'error' field.
C15_MissingColumnsNamed ==
    (~IsNone(call) /\ IsNone(Rejection(Val(call).request)) /\ ~IsNone(modelFile)
        /\ Absent # {}) =>
        LET c == Val(call)
        IN  /\ ~IsNone(c.result.error)
            /\ Val(c.result.error)[1] = "Missing required features"
            /\ Range(Val(c.result.error)[2]) = Absent
            /\ Len(Val(c.result.error)[2]) = Cardinality(Absent)
            /\ c.response.status = 500
            /\ c.response.body.error = c.result.error
            /\ c.alerts = <<>>

\* only resp_bytes is absent, and only resp_bytes is named
C15_Witness ==
    /\ ~IsNone(call)
    /\ ~IsNone(MODEL)
    /\ Absent = {"resp_bytes"}
    /\ Val(call).response.status = 500
    /\ Val(call).response.body.error = Some(<<"Missing required features", <<"resp_bytes">>>>)

----------------------------------------------------------------------------
(* The training-side preprocessor *)

\* the columns of numeric_cols the training file lacks
PreAbsent == {f \in AllFeatures : f \notin Range(pre.file.cols)}

\* C16: preprocess_pipeline / clean_data fails with a missing-feature error
\* that names every absent column whenever a column of numeric_cols is absent
\* from the table; it never goes on to normalize only the columns present.
C16_MissingFeatureError ==
    (~IsNone(pre.out) /\ PreAbsent # {}) =>
        LET o == Val(pre.out)
        IN  /\ o.split.raised
            /\ o.split.msg[1] = "Missing required features"
            /\ Range(o.split.msg[2]) = PreAbsent
            /\ o.normalized = <<>>
            /\ IsNone(o.scaler)

\* C17: with a label column of strings, "benign" becomes 0 and "malicious" 1,
\* any other label string makes preprocess_pipeline fail with an unknown-label
\* error, and no window receives a label outside {0, 1}.
C17_UnknownLabel ==
    (~IsNone(pre.out) /\ "label" \in Range(pre.file.cols)) =>
        LET o == Val(pre.out)
            unknown == {i \in DOMAIN pre.file.rows :
                          pre.file.rows[i].label \notin {"benign", "malicious"}}
        IN  /\ unknown # {} => (o.split.raised /\ o.split.kind = "UnknownLabelError")
            /\ ~IsNone(o.y)
            /\ \A k \in 1..Len(o.X) : k <= Len(Val(o.y)) => Val(o.y)[k] \in {0, 1}

----------------------------------------------------------------------------
(* Missing values, normalization parameters and feature order *)

\* C18: the inference path, like clean_data, drops every row that holds a
\* missing value before it normalizes and windows the table, so that no
\* window passed to the model contains a missing value.
C18_NoMissingValueInWindows ==
    (~IsNone(win.pfd) /\ ~Val(win.pfd).raised) =>
        LET sequences == Val(win.pfd).sequences
        IN  /\ \A i \in DOMAIN sequences : \A j \in DOMAIN sequences[i] : ~sequences[i][j].nan
            /\ Len(sequences) =
                  Cardinality({i \in DOMAIN win.data : ~win.data[i].nan}) - SeqLen

\* C19: the normalization parameters are fit once, on the fitting split of
\* the training run, and applied unmodified afterwards: an inference upload
\* is normalized with the persisted training parameters, not with parameters
\* computed from the uploaded rows.
C19_ScalerFitOnce ==
    (~IsNone(win.pfd) /\ ~Val(win.pfd).raised) =>
        Val(win.pfd).scaler.fit_on \cap {win.data[i].id : i \in DOMAIN win.data} = {}

\* C20: for a table that holds the four required columns, in any order and
\* with any other columns, the windows of preprocess_pipeline hold exactly
\* the features orig_pkts, resp_pkts, orig_bytes, resp_bytes in that order,
\* as the windows of preprocess_for_detection do.
C20_FixedFeatureOrder ==
    (~IsNone(pre.out) /\ PreAbsent = {} /\ Len(Val(pre.out).X) > 0) =>
        /\ Val(pre.out).feature_names = ExpectedFeatures
        /\ Val(pre.out).feature_names =
              PreprocessForDetection([cols |-> pre.file.cols,
                                      rows |-> Rows(SeqLen + 1, 0)]).features

----------------------------------------------------------------------------
(* Labels and windows handed to the split *)

\* the call got as far as split_train_test: clean_data did not raise
ReachedSplit ==
    /\ ~IsNone(pre.out)
    /\ ~CleanData([cols |-> DropColumn(pre.file.cols, "label"), rows |-> pre.file.rows],
                  ExpectedFeatures).raised

\* C30: in preprocess_pipeline with create_seq=True and a label column, the
\* number of labels handed to the split equals the number of windows, for
\* every input table: with rows removed for missing values, and with a row
\* count at or below seq_length.
C30_LabelsMatchWindows ==
    (ReachedSplit /\ ~IsNone(Val(pre.out).y)) =>
        Len(Val(Val(pre.out).y)) = Len(Val(pre.out).X)

----------------------------------------------------------------------------
(* POST /upload: the requests turned away, and the scans stored *)

\* the request has no 'file' part, an empty filename, or a filename that does
\* not end in '.csv'
Malformed(request) ==
    \/ ~request.has_file
    \/ request.filename = <<>>
    \/ request.filename[Len(request.filename)] # ".csv"

\* C27: an upload request with no 'file' part, with an empty filename, or
\* with a filename that does not end in '.csv' is answered 400 with an
\* 'error' field, before any temporary file is created and before detection,
\* notification or database insertion runs.
C27_RejectedBeforeAnyWork ==
    (~IsNone(call) /\ Malformed(Val(call).request)) =>
        LET c == Val(call)
        IN  /\ c.response.status = 400
            /\ ~IsNone(c.response.body.error)
            /\ c.did = <<>>
            /\ c.steps = <<>>
            /\ c.alerts = <<>>
            /\ Len(db) = c.rows_before

\* a file named traffic.txt is turned away by a server that has its model
\* loaded and scans stored
C27_Witness ==
    /\ ~IsNone(call)
    /\ Val(call).request = [has_file |-> TRUE, filename |-> <<"traffic", ".txt">>]
    /\ Val(call).response = Response(400, [error |-> Some(<<"Only CSV files are allowed", <<>>>>)])
    /\ ~IsNone(MODEL)
    /\ Len(db) > 0

\* ids of the scans GET /history lists
HistoryIds == {GetHistory(db).body[k].id : k \in DOMAIN GetHistory(db).body}

\* what an upload answered 200 or otherwise leaves in the table
RowIffOk ==
    ~IsNone(call) =>
        LET c == Val(call)
        IN  IF c.response.status = 200
            THEN /\ Len(db) = c.rows_before + 1
                 /\ db[Len(db)].anomalies_count = c.result.anomalies_count
                 /\ JsonLoads(db[Len(db)].details) = c.result.details
                 /\ c.response.body.scan_id = db[Len(db)].id
                 /\ c.response.body.anomalies_count = c.result.anomalies_count
                 /\ c.response.body.details = c.result.details
                 /\ GetScanDetails(db, c.response.body.scan_id) =
                        Response(200, [id |-> c.response.body.scan_id,
                                       timestamp |-> db[Len(db)].timestamp,
                                       anomalies_count |-> c.result.anomalies_count,
                                       details |-> c.result.details])
                 /\ c.response.body.scan_id \in HistoryIds
            ELSE /\ c.response.status \in {400, 500}
                 /\ Len(db) = c.rows_before

\* every stored scan stays retrievable through /scan/<scan_id> under its own id
Retrievable ==
    \A k \in DOMAIN db :
      /\ GetScanDetails(db, db[k].id).status = 200
      /\ GetScanDetails(db, db[k].id).body = ToDict(db[k])
      /\ \A j \in DOMAIN db : db[j].id = db[k].id => j = k

----------------------------------------------------------------------------
(* train_model.py: one run of train_lstm_autoencoder.  Model parameters    *)
(* are named by the run and the epoch that gave them; run 0 is an earlier, *)
(* completed run.  A validation loss is a small integer.                   *)

Patience == 10

Weights(run, epoch) == [run |-> run, epoch |-> epoch]

\* EarlyStopping(monitor='val_loss', patience=10, restore_best_weights=True):
\* on_epoch_end, epochs counted from 1
EarlyStopping(es, epoch, val_loss) ==
    LET improved == IsNone(es.best) \/ val_loss < Val(es.best)
        wait == IF improved THEN 0 ELSE es.wait + 1
    IN  [best |-> IF improved THEN Some(val_loss) ELSE es.best,
         best_epoch |-> IF improved THEN epoch ELSE es.best_epoch,
         wait |-> wait,
         stop_training |-> wait >= Patience /\ epoch > 1]

\* ModelCheckpoint(model_save_path, monitor='val_loss', save_best_only=True):
\* on_epoch_end; saves: the model is written to model_save_path
ModelCheckpoint(best, val_loss) ==
    LET improved == IsNone(best) \/ val_loss < Val(best)
    IN  [best |-> IF improved THEN Some(val_loss) ELSE best, saves |-> improved]

\* the run before its first step.  restores_on_train_end: the EarlyStopping
\* of the installed Keras sets the best weights when training ends without
\* an early stop (Keras 3), or only when it stops training (tf.keras 2).
\* thr_of: the parameters the text of threshold.txt was computed from.
TrainStart(epochs, previous, restores_on_train_end) ==
    [run |-> 1, pc |-> "start", epochs |-> epochs, epoch |-> 0, losses |-> <<>>,
     es |-> [best |-> None, best_epoch |-> 0, wait |-> 0, stop_training |-> FALSE],
     mc_best |-> None,
     model |-> None, scaler |-> None, threshold |-> None, calibrated_on |-> None,
     restores_on_train_end |-> restores_on_train_end,
     thr_of |-> IF previous THEN Some(Weights(0, 1)) ELSE None]

\* the rows of the training table, a table longer than the uploads
TrainingTable == Rows(SeqLen + MaxExtra + 1, 0)

\* lines 259-302: the table is read and preprocessed and the model built;
\* preprocess_pipeline may raise, and nothing is written then
TrainPreprocess ==
    /\ ~IsNone(train)
    /\ Val(train).pc = "start"
    /\ \E ok \in BOOLEAN :
         train' = Some(IF ok
                       THEN [Val(train) EXCEPT !.pc = "fit",
                                               !.model = Some(Weights(Val(train).run, 0)),
                                               !.scaler = Some(Fit(TrainingTable))]
                       ELSE [Val(train) EXCEPT !.pc = "failed"])
    /\ UNCHANGED <<app, db, threads, win, pre, ev, cal>>

\* lines 315-322: one epoch of model.fit and the two callbacks at its end,
\* and the end of training after the last epoch
TrainEpoch ==
    /\ ~IsNone(train)
    /\ Val(train).pc = "fit"
    /\ Val(train).epoch < Val(train).epochs
    /\ \E val_loss \in 0..MaxLoss :
         LET t == Val(train)
             epoch == t.epoch + 1
             es == EarlyStopping(t.es, epoch, val_loss)
             mc == ModelCheckpoint(t.mc_best, val_loss)
             ends == es.stop_training \/ epoch = t.epochs
             model == IF es.stop_training \/ (ends /\ t.restores_on_train_end)
                      THEN Weights(t.run, es.best_epoch)
                      ELSE Weights(t.run, epoch)
         IN  /\ train' = Some([t EXCEPT !.epoch = epoch,
                                        !.losses = Append(t.losses, val_loss),
                                        !.es = es,
                                        !.mc_best = mc.best,
                                        !.model = Some(model),
                                        !.pc = IF ends THEN "fitted" ELSE "fit"])
             /\ modelFile' = IF mc.saves THEN Some(Weights(t.run, epoch)) ELSE modelFile
    /\ UNCHANGED <<thrOptFile, thrFile, MODEL, THRESHOLD, upload, call, mailed, loads>>
    /\ UNCHANGED <<db, threads, win, pre, ev, cal>>

\* lines 330-337: the threshold, mean + 3 std of the errors the model in
\* memory gives the training windows
TrainCalibrate ==
    /\ ~IsNone(train)
    /\ Val(train).pc = "fitted"
    /\ \E threshold \in {0, MaxThr} :
         train' = Some([Val(train) EXCEPT !.pc = "calibrated",
                                          !.threshold = Some(threshold),
                                          !.calibrated_on = Val(train).model])
    /\ UNCHANGED <<app, db, threads, win, pre, ev, cal>>

\* lines 346-353: detect_anomalies and evaluate_model on the two splits;
\* evaluate_model raises on a split of one class, which ends the run
TrainEvaluate ==
    /\ ~IsNone(train)
    /\ Val(train).pc = "calibrated"
    /\ \E raises \in BOOLEAN :
         train' = Some([Val(train) EXCEPT !.pc = IF raises THEN "failed" ELSE "evaluated"])
    /\ UNCHANGED <<app, db, threads, win, pre, ev, cal>>

\* lines 357-362: threshold.txt is written
TrainPersist ==
    /\ ~IsNone(train)
    /\ Val(train).pc = "evaluated"
    /\ thrFile' = Some(ReprFloat(Val(Val(train).threshold)))
    /\ train' = Some([Val(train) EXCEPT !.pc = "done", !.thr_of = Val(train).calibrated_on])
    /\ UNCHANGED <<modelFile, thrOptFile, MODEL, THRESHOLD, upload, call, mailed, loads>>
    /\ UNCHANGED <<db, threads, win, pre, ev, cal>>

Train == TrainPreprocess \/ TrainEpoch \/ TrainCalibrate \/ TrainEvaluate \/ TrainPersist

\* the files an earlier, completed run left, or none
PreviousFiles(previous) ==
    /\ modelFile = (IF previous THEN Some(Weights(0, 1)) ELSE None)
    /\ thrFile = (IF previous THEN Some(ReprFloat(MaxThr)) ELSE None)

TrainInit ==
    \E epochs \in 1..MaxEpochs, previous \in BOOLEAN, restores_on_train_end \in BOOLEAN :
      /\ train = Some(TrainStart(epochs, previous, restores_on_train_end))
      /\ PreviousFiles(previous)
      /\ thrOptFile = None
      /\ MODEL = None /\ THRESHOLD = None
      /\ upload = [cols |-> <<>>, rows |-> <<>>, pat |-> <<0>>]
      /\ call = None /\ mailed = None /\ loads = None
      /\ db = <<>> /\ threads = <<>>

SpecTrainInit == TrainInit /\ WinIdle /\ PreIdle /\ EvIdle /\ CalIdle
SpecTrainNext == Train
SpecTrain == SpecTrainInit /\ [][SpecTrainNext]_vars

\* the epoch of lowest validation loss, the earliest one on ties
BestEpoch(losses) ==
    CHOOSE e \in DOMAIN losses :
      \A j \in DOMAIN losses : losses[e] <= losses[j] /\ (j < e => losses[j] > losses[e])

\* the epochs run since the validation loss last improved
NotImprovedFor(losses) == Len(losses) - BestEpoch(losses)

\* model.fit has returned
Fitted == ~IsNone(train) /\ Val(train).epoch > 0 /\ Val(train).pc # "fit"

\* C25: training ends after at most `epochs` epochs, and earlier as soon as
\* the validation loss has not improved for 10 consecutive epochs; at the end
\* of training the persisted model file and the model in memory that the
\* threshold is computed from both hold the parameters of the epoch of lowest
\* validation loss (the earliest on ties), not those of the last epoch.
C25_BestEpochKept ==
    (~IsNone(train) /\ Val(train).epoch > 0) =>
        LET t == Val(train)
        IN  /\ t.epoch <= t.epochs
            /\ t.pc = "fit" => NotImprovedFor(t.losses) < Patience
            /\ Fitted =>
                 /\ t.epoch = t.epochs \/ NotImprovedFor(t.losses) = Patience
                 /\ modelFile = Some(Weights(t.run, BestEpoch(t.losses)))
                 /\ t.model = Some(Weights(t.run, BestEpoch(t.losses)))
                 /\ ~IsNone(t.calibrated_on) =>
                       t.calibrated_on = Some(Weights(t.run, BestEpoch(t.losses)))

----------------------------------------------------------------------------
(* The artifacts from training to inference: a training run, the threshold *)
(* optimizer and the inference process side by side on one models/         *)
(* directory.                                                              *)

\* optimize_threshold.py, run as a script: it loads models/lstm_model.keras
\* and writes models/threshold_optimized.txt
OptimizeThreshold ==
    /\ ~IsNone(modelFile)
    /\ \E threshold \in {0, MaxThr} : thrOptFile' = Some(ReprFloat(threshold))
    /\ UNCHANGED <<modelFile, thrFile, MODEL, THRESHOLD, upload, call, mailed, loads>>
    /\ UNCHANGED <<db, train, threads, win, pre, ev, cal>>

\* an upload of more than ten rows.  pat: the errors the model on disk gives
\* its windows when the rows are normalized as preprocess_for_detection
\* does; mem: the errors the model in memory at the end of training gives
\* them when the rows are normalized by the scaler of the training run.
LifeUploads ==
    { [cols |-> ExpectedFeatures, rows |-> Rows(SeqLen + MaxExtra, 0),
       pat |-> [i \in 1..PatLen |-> IF i = 1 THEN 0 ELSE MaxErr], mem |-> mem] :
          mem \in [1..PatLen -> {0, MaxErr}] }

LifeInit ==
    \E epochs \in 1..MaxLifeEpochs, previous \in BOOLEAN, restores_on_train_end \in BOOLEAN :
      /\ train = Some(TrainStart(epochs, previous, restores_on_train_end))
      /\ PreviousFiles(previous)
      /\ thrOptFile = None
      /\ MODEL = None /\ THRESHOLD = None
      /\ upload \in LifeUploads
      /\ call = None /\ mailed = None /\ loads = None
      /\ db = <<>> /\ threads = <<>>

SpecLifeInit == LifeInit /\ WinIdle /\ PreIdle /\ EvIdle /\ CalIdle
SpecLifeNext == Train \/ OptimizeThreshold \/ AppLoadMlModel \/ AppDetectAnomalies
SpecLife == SpecLifeInit /\ [][SpecLifeNext]_vars

\* C21: the phases run strictly in the order TRAIN, CALIBRATE, EVALUATE,
\* PERSIST, INFER: no artifact (model file or threshold file) is written
\* before training, calibration and evaluation have all completed, and INFER
\* runs against the persisted artifacts without re-entering an earlier phase.
C21_PhasesInOrder ==
    [][ /\ (modelFile' # modelFile \/ thrFile' # thrFile) => Val(train).pc = "evaluated"
        /\ (MODEL' # MODEL \/ THRESHOLD' # THRESHOLD \/ call' # call) => train' = train
      ]_vars

\* C29: at every moment at which both lstm_model.keras and threshold.txt
\* exist, during retraining too, the threshold in threshold.txt was computed
\* from the model parameters in lstm_model.keras.
C29_ThresholdOfModelOnDisk ==
    (~IsNone(modelFile) /\ ~IsNone(thrFile)) => Val(train).thr_of = modelFile

\* detect_anomalies has scored an upload with a loaded model
Scored == ~IsNone(call) /\ IsNone(Val(call).result.error)

\* C28: for every order of load_ml_model calls and artifact-file creations,
\* whenever detect_anomalies scores with a loaded model, the threshold it
\* applies is the value read from a threshold file (the optimized one if
\* present, otherwise threshold.txt) if such a file existed when the model
\* was loaded; the default 0.12 is applied only if no threshold file existed
\* at that time.
C28_ThresholdOfLoadTime ==
    (Scored /\ ~IsNone(loads) /\ ~IsNone(Val(loads).with_model)) =>
        LET at == Val(Val(loads).with_model)
            applied == Val(call).result.threshold
        IN  applied = (IF ~IsNone(at.thrOpt) THEN ParseFloat(Val(at.thrOpt))
                       ELSE IF ~IsNone(at.thr) THEN ParseFloat(Val(at.thr))
                       ELSE DefaultThreshold)

ErrorsInMemory ==
    LET pfd == PreprocessForDetection(upload)
    IN  IF Val(train).model = MODEL /\ Val(train).scaler = Some(pfd.scaler)
        THEN ErrorsOf(upload, pfd.sequences)
        ELSE [i \in DOMAIN pfd.sequences |-> upload.mem[((i - 1) % Len(upload.mem)) + 1]]

\* C24: classifying a batch of raw rows with the model, scaler and threshold
\* in memory at the end of training gives the same classifications as an
\* inference process that has loaded the persisted model, scaler and
\* threshold; the threshold read back equals the value written.
C24_SameClassifications ==
    (Scored /\ Val(train).pc = "done" /\ MODEL = modelFile) =>
        LET flagged == AnomalyIndices(ErrorsInMemory, Const(Val(Val(train).threshold)))
            result == Val(call).result
        IN  /\ result.threshold = Val(Val(train).threshold)
            /\ result.anomalies_count = Len(flagged)
            /\ \A k \in DOMAIN result.details : result.details[k].sequence_id = flagged[k]

----------------------------------------------------------------------------
(* Request threads of the server inside detect_anomalies, statement by     *)
(* statement: load_ml_model reads and writes the two globals, the rest of  *)
(* the call works on the pair it returned.  A thread is at the line it     *)
(* runs next.                                                              *)

Threads == 1..NThreads

ThreadIdle ==
    [pc |-> "idle", calls |-> 0, path |-> None, model |-> None, threshold |-> None,
     scored_with |-> None, classified_with |-> None]

At(i, line) == threads[i].pc = line

\* the thread moves to a line, with some of its locals set
Goes(i, line, locals) ==
    /\ threads' = [threads EXCEPT ![i] = [f \in DOMAIN threads[i] |->
                      IF f = "pc" THEN line
                      ELSE IF f \in DOMAIN locals THEN locals[f]
                      ELSE threads[i][f]]]
    /\ UNCHANGED <<files, upload, call, mailed, loads, db, train, win, pre, ev, cal>>

NoLocals == [f \in {} |-> None]

\* line 235: detect_anomalies calls load_ml_model
ThreadCall(i) ==
    /\ At(i, "idle") \/ At(i, "done")
    /\ threads[i].calls < MaxCalls
    /\ Goes(i, "64", [calls |-> threads[i].calls + 1, path |-> None, model |-> None,
                      threshold |-> None, scored_with |-> None, classified_with |-> None])
    /\ UNCHANGED <<MODEL, THRESHOLD>>

FastPath(model) == IF IsNone(model) THEN "66" ELSE "86"

\* line 64: if MODEL is None
AfterModelCheck(model) == IF IsNone(model) THEN "66" ELSE "72"

ThreadCheckModel(i) ==
    /\ At(i, "64")
    /\ Goes(i, AfterModelCheck(MODEL), NoLocals)
    /\ UNCHANGED <<MODEL, THRESHOLD>>

\* line 66: if os.path.exists(model_path)
ThreadFindModel(i) ==
    /\ At(i, "66")
    /\ Goes(i, IF ~IsNone(modelFile) THEN "67" ELSE "72", NoLocals)
    /\ UNCHANGED <<MODEL, THRESHOLD>>

\* line 67: MODEL = load_model(model_path)
ThreadLoadModel(i) ==
    /\ At(i, "67")
    /\ MODEL' = modelFile
    /\ Goes(i, "72", NoLocals)
    /\ UNCHANGED THRESHOLD

\* line 72: if THRESHOLD is None
ThreadCheckThreshold(i) ==
    /\ At(i, "72")
    /\ Goes(i, IF IsNone(THRESHOLD) THEN "74" ELSE "86", NoLocals)
    /\ UNCHANGED <<MODEL, THRESHOLD>>

\* lines 74-76: the optimized file if it exists, else threshold.txt
ThreadChooseThresholdPath(i) ==
    /\ At(i, "74")
    /\ Goes(i, "78", [path |-> IF ~IsNone(thrOptFile) THEN Some("threshold_optimized.txt")
                               ELSE Some("threshold.txt")])
    /\ UNCHANGED <<MODEL, THRESHOLD>>

FileAt(path) == IF path = Some("threshold_optimized.txt") THEN thrOptFile ELSE thrFile

\* line 78: if os.path.exists(threshold_path)
ThreadFindThreshold(i) ==
    /\ At(i, "78")
    /\ Goes(i, IF ~IsNone(FileAt(threads[i].path)) THEN "79" ELSE "83", NoLocals)
    /\ UNCHANGED <<MODEL, THRESHOLD>>

\* lines 79-81: THRESHOLD = float(f.read().strip())
ThreadReadThreshold(i) ==
    /\ At(i, "79")
    /\ THRESHOLD' = Some(ParseFloat(Val(FileAt(threads[i].path))))
    /\ Goes(i, "86", NoLocals)
    /\ UNCHANGED MODEL

\* line 83: THRESHOLD = 0.12
ThreadDefaultThreshold(i) ==
    /\ At(i, "83")
    /\ THRESHOLD' = Some(DefaultThreshold)
    /\ Goes(i, "86", NoLocals)
    /\ UNCHANGED MODEL

\* line 86: return MODEL, THRESHOLD; the two globals are read one after the
\* other, and line 235 binds them to model and threshold
ThreadReturnModel(i) ==
    /\ At(i, "86")
    /\ Goes(i, "86b", [model |-> Some(MODEL)])
    /\ UNCHANGED <<MODEL, THRESHOLD>>

ThreadReturnThreshold(i) ==
    /\ At(i, "86b")
    /\ Goes(i, "237", [threshold |-> Some(THRESHOLD)])
    /\ UNCHANGED <<MODEL, THRESHOLD>>

\* lines 237-243: if model is None the call returns its error result
ThreadCheckLoaded(i) ==
    /\ At(i, "237")
    /\ Goes(i, IF ModelUnavailable(Val(threads[i].model)) THEN "done" ELSE "250", NoLocals)
    /\ UNCHANGED <<MODEL, THRESHOLD>>

\* lines 246-252: the windows are scored by the local model
ThreadScore(i) ==
    /\ At(i, "250")
    /\ Goes(i, "255", [scored_with |-> Some(Val(threads[i].model))])
    /\ UNCHANGED <<MODEL, THRESHOLD>>

\* lines 255-296: the errors are classified by the local threshold
ThreadClassify(i) ==
    /\ At(i, "255")
    /\ Goes(i, "done", [classified_with |-> Some(Val(threads[i].threshold))])
    /\ UNCHANGED <<MODEL, THRESHOLD>>

Thread(i) ==
    \/ ThreadCall(i) \/ ThreadCheckModel(i) \/ ThreadFindModel(i) \/ ThreadLoadModel(i)
    \/ ThreadCheckThreshold(i) \/ ThreadChooseThresholdPath(i) \/ ThreadFindThreshold(i)
    \/ ThreadReadThreshold(i) \/ ThreadDefaultThreshold(i)
    \/ ThreadReturnModel(i) \/ ThreadReturnThreshold(i)
    \/ ThreadCheckLoaded(i) \/ ThreadScore(i) \/ ThreadClassify(i)

ConcInit ==
    \E previous \in BOOLEAN :
      /\ train = Some(TrainStart(1, previous, TRUE))
      /\ PreviousFiles(previous)
      /\ thrOptFile = None
      /\ MODEL = None /\ THRESHOLD = None
      /\ upload = [cols |-> <<>>, rows |-> <<>>, pat |-> <<0>>]
      /\ call = None /\ mailed = None /\ loads = None
      /\ db = <<>>
      /\ threads = [i \in Threads |-> ThreadIdle]

SpecConcInit == ConcInit /\ WinIdle /\ PreIdle /\ EvIdle /\ CalIdle
SpecConcNext == (\E i \in Threads : Thread(i)) \/ Train \/ OptimizeThreshold
SpecConc == SpecConcInit /\ [][SpecConcNext]_vars

\* load_ml_model has returned to the thread
Returned(i) == threads[i].pc \in {"237", "250", "255", "done"}

\* C22: under every interleaving of concurrent callers of load_ml_model and
\* detect_anomalies, no caller observes a partially updated (model,
\* threshold) pair: every call that obtains a model that is not None also
\* obtains a threshold that is not None, and the scoring and the
\* classification of a call use one pair, the one the call obtained.
C22_NoPartialPair ==
    \A i \in Threads :
      /\ Returned(i) =>
           (~IsNone(Val(threads[i].model)) => ~IsNone(Val(threads[i].threshold)))
      /\ ~IsNone(threads[i].scored_with) =>
           Val(threads[i].scored_with) = Val(threads[i].model)
      /\ ~IsNone(threads[i].classified_with) =>
           /\ ~IsNone(threads[i].scored_with)
           /\ Val(threads[i].classified_with) = Val(threads[i].threshold)
           /\ ~IsNone(Val(threads[i].classified_with))

\* a call has scored and classified with the pair it obtained while another
\* thread, inside load_ml_model at the same time, has since set the global
\* threshold to another value
C22_Witness ==
    \E i, j \in Threads :
      /\ threads[i].pc = "done"
      /\ ~IsNone(threads[i].classified_with)
      /\ Val(threads[i].classified_with) # THRESHOLD
      /\ threads[j].pc = "86"
      /\ threads[j].path = Some("threshold_optimized.txt")

====
